---- MODULE Spec2Model ----
(***************************************************************************)
(* Zudora chat assistant: the cutoff matcher (findCollegesByMarks) and the *)
(* keyword/regex reply generator (generateAIResponse) of the ChatInterface *)
(* component, the component's event handlers, and the ZudoraAIService      *)
(* wrappers.  Texts are sequences of one-character strings, numbers are    *)
(* decimal fractions [num, den] with den a power of ten.                   *)
(***************************************************************************)
EXTENDS Integers, Sequences, FiniteSets, TLC

VARIABLES collegesData, marks, category, suggestions, userInput, reply, pc,
          messages, inputValue, isLoading, isListening, chatHistory,
          timers, recognition, toast, calls,
          config, api

\* The catalog and one call of findCollegesByMarks or generateAIResponse.
coreVars == <<collegesData, marks, category, suggestions, userInput, reply, pc>>

\* The state of ChatInterface: its useState values, the pending setTimeout
\* callbacks, the running speech recognitions, the toast shown last and the
\* number of calls of handleSendMessage.
uiVars == <<messages, inputValue, isLoading, isListening, chatHistory,
            timers, recognition, toast, calls>>

\* A ZudoraAIService object and the call in progress on it.
apiVars == <<config, api>>

vars == <<collegesData, marks, category, suggestions, userInput, reply, pc,
          messages, inputValue, isLoading, isListening, chatHistory,
          timers, recognition, toast, calls,
          config, api>>

(***************************************************************************)
(* Numbers                                                                 *)
(***************************************************************************)

\* A JSON / JavaScript number with a finite decimal expansion.
Num(n, d) == [type |-> "number", num |-> n, den |-> d]

\* JSON null.
Null == [type |-> "null", num |-> 0, den |-> 1]

\* a >= b on numbers.
Geq(a, b) == a.num * b.den >= b.num * a.den

\* a > b on numbers.
Gt(a, b) == a.num * b.den > b.num * a.den

\* JavaScript truthiness of a cutoff value: null, 0 (and NaN) are falsy.
Truthy(v) == v.type = "number" /\ v.num # 0

\* typeof v === 'number'
IsNumber(v) == v.type = "number"

(***************************************************************************)
(* The college catalog                                                     *)
(***************************************************************************)

OC == <<"O", "C">>
BC == <<"B", "C">>
BCM == <<"B", "C", "M">>
MBC == <<"M", "B", "C">>
SC == <<"S", "C">>
SCA == <<"S", "C", "A">>
ST == <<"S", "T">>

\* The seven category codes of the catalog.
Categories == {OC, BC, BCM, MBC, SC, SCA, ST}

\* slice(0, 10): the number of suggestions kept.
TopN == 10

\* Largest number of colleges in a catalog.
MaxColleges == 2

\* Largest number of branches in one college.
MaxBranches == 10

\* The cutoffs_2024 objects a branch may carry; a branch may omit a category
\* or record null for it.
CutoffProfileSeq ==
    << (BC :> Num(180, 1)) @@ (OC :> Num(190, 1)) @@ (MBC :> Num(10, 1)),
       (BC :> Num(1835, 10)) @@ (BCM :> Num(185, 10)),
       (BC :> Num(0, 1)) @@ (OC :> Num(185, 1)) @@ (BCM :> Num(5, 1)),
       (BC :> Null) @@ (OC :> Num(170, 1)) @@ (MBC :> Num(18, 1)),
       (BC :> Num(150, 1)) @@ (ST :> Num(120, 1)) >>

CutoffProfiles == { CutoffProfileSeq[i] : i \in 1..Len(CutoffProfileSeq) }

BranchNames == <<"CSE", "ECE", "MECH">>

\* The sizes a college of the catalog may have.
BranchCounts == {0, 1, 2, MaxBranches}

\* A college whose n branches all carry the cutoffs p.
College(i, n, p) ==
    [ college_name |-> i,
      address |-> i,
      branches |-> [ j \in 1..n |->
                       [ branch_name |-> BranchNames[((j - 1) % Len(BranchNames)) + 1],
                         cutoffs_2024 |-> p ] ] ]

\* The catalogs of k colleges.
RECURSIVE CatalogsOfLen(_)
CatalogsOfLen(k) ==
    IF k = 0 THEN { <<>> }
    ELSE { Append(c, College(k, n, p)) :
             c \in CatalogsOfLen(k - 1), n \in BranchCounts, p \in CutoffProfiles }

\* collegesData.tnea_colleges: every catalog of at most MaxColleges colleges.
Catalogs == UNION { CatalogsOfLen(k) : k \in 0..MaxColleges }

(***************************************************************************)
(* findCollegesByMarks                                                     *)
(***************************************************************************)

\* branch.cutoffs_2024[category]: the value, or undefined (modelled as Null,
\* which the guard treats alike: falsy and not a number).
CutoffOf(branch, cat) ==
    IF cat \in DOMAIN branch.cutoffs_2024 THEN branch.cutoffs_2024[cat] ELSE Null

\* Mutant of Qualifies: the comparison with the marks is lost.
QualifiesAnyMarks(branch, m, cat) ==
    LET cutoff == CutoffOf(branch, cat)
    IN  Truthy(cutoff) /\ IsNumber(cutoff)

\* if (cutoff && typeof cutoff === 'number' && marks >= cutoff)
Qualifies(branch, m, cat) ==
    LET cutoff == CutoffOf(branch, cat)
    IN  Truthy(cutoff) /\ IsNumber(cutoff) /\ Geq(m, cutoff)

\* The object pushed for a qualifying branch.
Suggestion(college, branch, cat) ==
    [ college_name |-> college.college_name,
      branch_name |-> branch.branch_name,
      cutoff |-> CutoffOf(branch, cat),
      address |-> college.address ]

\* college.branches.forEach: the suggestions of one college, in branch order.
RECURSIVE BranchScan(_, _, _, _)
BranchScan(college, j, m, cat) ==
    IF j > Len(college.branches) THEN <<>>
    ELSE LET branch == college.branches[j]
             rest == BranchScan(college, j + 1, m, cat)
         IN  IF Qualifies(branch, m, cat)
             THEN <<Suggestion(college, branch, cat)>> \o rest
             ELSE rest

\* collegesData.tnea_colleges.forEach: all suggestions, in catalog order.
RECURSIVE CollegeScan(_, _, _, _)
CollegeScan(data, i, m, cat) ==
    IF i > Len(data) THEN <<>>
    ELSE BranchScan(data[i], 1, m, cat) \o CollegeScan(data, i + 1, m, cat)

\* Mutant of ComesBefore: b goes before a on equal cutoffs too.
ComesBeforeOnTies(b, a) == Geq(b.cutoff, a.cutoff)

\* The comparator (a, b) => b.cutoff - a.cutoff is positive: b goes before a.
ComesBefore(b, a) == Gt(b.cutoff, a.cutoff)

\* One step of the stable sort: x goes behind every element it does not
\* come before.
RECURSIVE InsertSorted(_, _)
InsertSorted(sorted, x) ==
    IF sorted = <<>> THEN <<x>>
    ELSE IF ComesBefore(x, Head(sorted)) THEN <<x>> \o sorted
    ELSE <<Head(sorted)>> \o InsertSorted(Tail(sorted), x)

\* Array.prototype.sort with the comparator above (stable).
RECURSIVE SortByCutoff(_)
SortByCutoff(s) ==
    IF s = <<>> THEN <<>>
    ELSE InsertSorted(SortByCutoff(SubSeq(s, 1, Len(s) - 1)), s[Len(s)])

\* Mutant of Slice: slice(1, n).
SliceFromSecond(s, n) == SubSeq(s, 2, IF Len(s) < n THEN Len(s) ELSE n)

\* slice(0, n)
Slice(s, n) == SubSeq(s, 1, IF Len(s) < n THEN Len(s) ELSE n)

\* Mutant of findCollegesByMarks: the sort is lost.
findCollegesUnsorted(m, cat, data) ==
    Slice(CollegeScan(data, 1, m, cat), TopN)

findCollegesByMarks(m, cat, data) ==
    Slice(SortByCutoff(CollegeScan(data, 1, m, cat)), TopN)

(***************************************************************************)
(* Strings                                                                 *)
(***************************************************************************)

LowerLetters ==
    << "a", "b", "c", "d", "e", "f", "g", "h", "i", "j", "k", "l", "m",
       "n", "o", "p", "q", "r", "s", "t", "u", "v", "w", "x", "y", "z" >>

UpperLetters ==
    << "A", "B", "C", "D", "E", "F", "G", "H", "I", "J", "K", "L", "M",
       "N", "O", "P", "Q", "R", "S", "T", "U", "V", "W", "X", "Y", "Z" >>

DigitChars == << "0", "1", "2", "3", "4", "5", "6", "7", "8", "9" >>

Range(f) == { f[i] : i \in DOMAIN f }

DigitSet == Range(DigitChars)

LowerSet == Range(LowerLetters)

UpperSet == Range(UpperLetters)

WordChars == LowerSet \cup UpperSet \cup DigitSet \cup {"_"}

\* \d
IsDigit(c) == c \in DigitSet

\* \w: what \b tells apart from everything else.
IsWordChar(c) == c \in WordChars

IndexIn(seq, c) == CHOOSE i \in DOMAIN seq : seq[i] = c

ToLowerChar(c) ==
    IF c \in UpperSet THEN LowerLetters[IndexIn(UpperLetters, c)] ELSE c

ToUpperChar(c) ==
    IF c \in LowerSet THEN UpperLetters[IndexIn(LowerLetters, c)] ELSE c

\* String.prototype.toLowerCase
toLowerCase(s) == [ i \in 1..Len(s) |-> ToLowerChar(s[i]) ]

\* Mutant of toUpperCase: the text is left as it is.
toUpperCaseOmitted(s) == s

\* String.prototype.toUpperCase
toUpperCase(s) == [ i \in 1..Len(s) |-> ToUpperChar(s[i]) ]

\* String.prototype.includes
includes(s, pat) ==
    \E i \in 1..(Len(s) - Len(pat) + 1) : SubSeq(s, i, i + Len(pat) - 1) = pat

\* \b between s[p] and s[p + 1]; the ends of the text count as non-word.
WordBoundaryAt(s, p) ==
    (p >= 1 /\ p <= Len(s) /\ IsWordChar(s[p]))
        # (p + 1 >= 1 /\ p + 1 <= Len(s) /\ IsWordChar(s[p + 1]))

\* n digits start at s[i].
DigitRun(s, i, n) ==
    /\ i >= 1
    /\ n >= 1
    /\ i + n - 1 <= Len(s)
    /\ \A j \in i..(i + n - 1) : IsDigit(s[j])

\* The length of a match of n digits and k decimals (k = 0: no decimal part).
MarksLen(n, k) == IF k = 0 THEN n ELSE n + 1 + k

\* /\b(\d{1,3}(?:\.\d+)?)\b/ matches at s[i] with n digits and k decimals.
MarksMatchesAt(s, i, n, k) ==
    /\ WordBoundaryAt(s, i - 1)
    /\ DigitRun(s, i, n)
    /\ k = 0 \/ (i + n <= Len(s) /\ s[i + n] = "." /\ DigitRun(s, i + n + 1, k))
    /\ WordBoundaryAt(s, i + MarksLen(n, k) - 1)

Max(S) == CHOOSE x \in S : \A y \in S : y <= x

Least(S) == CHOOSE x \in S : \A y \in S : x <= y

\* Mutant of marksMatch: the first numeric substring, whatever surrounds it.
marksMatchUnbounded(s) ==
    LET digits == { i \in 1..Len(s) : IsDigit(s[i]) }
    IN  IF digits = {} THEN <<>>
        ELSE LET i == Least(digits)
                 n == Max({ n1 \in 1..3 : DigitRun(s, i, n1) })
             IN  SubSeq(s, i, i + n - 1)

\* input.match(/\b(\d{1,3}(?:\.\d+)?)\b/)[1], or <<>> for null: the leftmost
\* start; there the greedy \d{1,3} takes the most digits that lead to a
\* match, and the greedy optional decimal part is taken when it leads to one.
marksMatch(s) ==
    LET starts == { i \in 1..Len(s) :
                      /\ IsDigit(s[i])
                      /\ WordBoundaryAt(s, i - 1)
                      /\ \E n \in 1..3, k \in 0..Len(s) : MarksMatchesAt(s, i, n, k) }
    IN  IF starts = {} THEN <<>>
        ELSE LET i == Least(starts)
                 n == Max({ n1 \in 1..3 :
                              \E k \in 0..Len(s) : MarksMatchesAt(s, i, n1, k) })
                 k == Max({ k1 \in 0..Len(s) : MarksMatchesAt(s, i, n, k1) })
             IN  SubSeq(s, i, i + MarksLen(n, k) - 1)

\* The alternatives of /\b(oc|bc|bcm|mbc|sc|sca|st)\b/i, in their order.
CategoryAlternatives ==
    << <<"o", "c">>, <<"b", "c">>, <<"b", "c", "m">>, <<"m", "b", "c">>,
       <<"s", "c">>, <<"s", "c", "a">>, <<"s", "t">> >>

\* Alternative a matches at s[i], ignoring case, between two word boundaries.
CategoryMatchesAt(s, i, a) ==
    /\ WordBoundaryAt(s, i - 1)
    /\ i + Len(CategoryAlternatives[a]) - 1 <= Len(s)
    /\ toLowerCase(SubSeq(s, i, i + Len(CategoryAlternatives[a]) - 1))
           = CategoryAlternatives[a]
    /\ WordBoundaryAt(s, i + Len(CategoryAlternatives[a]) - 1)

\* input.match(/\b(oc|bc|bcm|mbc|sc|sca|st)\b/i)[1], or <<>> for null: the
\* leftmost start and there the first alternative that leads to a match.
categoryMatch(s) ==
    LET alts == DOMAIN CategoryAlternatives
        starts == { i \in 1..Len(s) :
                      /\ WordBoundaryAt(s, i - 1)
                      /\ \E a \in alts : CategoryMatchesAt(s, i, a) }
    IN  IF starts = {} THEN <<>>
        ELSE LET i == Least(starts)
                 a == Least({ a1 \in alts : CategoryMatchesAt(s, i, a1) })
             IN  SubSeq(s, i, i + Len(CategoryAlternatives[a]) - 1)

DigitValue(c) == IndexIn(DigitChars, c) - 1

\* The number written by the digits of s, read after the value acc.
RECURSIVE DigitsValue(_, _)
DigitsValue(s, acc) ==
    IF s = <<>> THEN acc ELSE DigitsValue(Tail(s), 10 * acc + DigitValue(Head(s)))

RECURSIVE Pow10(_)
Pow10(k) == IF k = 0 THEN 1 ELSE 10 * Pow10(k - 1)

\* The same number without trailing decimal zeros.
RECURSIVE Normalize(_)
Normalize(x) ==
    IF x.den > 1 /\ x.num % 10 = 0
    THEN Normalize(Num(x.num \div 10, x.den \div 10))
    ELSE x

\* parseFloat on a match of the marks pattern: digits, optionally a dot and
\* digits.
parseFloat(s) ==
    LET dots == { i \in 1..Len(s) : s[i] = "." }
    IN  IF dots = {} THEN Num(DigitsValue(s, 0), 1)
        ELSE LET d == Least(dots)
                 frac == SubSeq(s, d + 1, Len(s))
             IN  Normalize(Num(DigitsValue(frac, DigitsValue(SubSeq(s, 1, d - 1), 0)),
                               Pow10(Len(frac))))

(***************************************************************************)
(* generateAIResponse                                                      *)
(***************************************************************************)

Hi == <<"h", "i">>
Hello == <<"h", "e", "l", "l", "o">>
Hey == <<"h", "e", "y">>
HowAreYou == <<"h", "o", "w", " ", "a", "r", "e", " ", "y", "o", "u">>
HowDoYouDo == <<"h", "o", "w", " ", "d", "o", " ", "y", "o", "u", " ", "d", "o">>
CollegeWord == <<"c", "o", "l", "l", "e", "g", "e">>
EngineeringWord == <<"e", "n", "g", "i", "n", "e", "e", "r", "i", "n", "g">>
CutoffWord == <<"c", "u", "t", "o", "f", "f">>

\* No reply yet.
NoReply ==
    [ kind |-> "none", content |-> "", marks |-> Null, category |-> <<>>,
      count |-> 0, hasSuggestions |-> FALSE, suggestions |-> <<>> ]

\* The returned object: content is one of the four fixed texts or one of the
\* two templates, filled with marks, category and suggestions.length;
\* hasSuggestions tells whether the object has a suggestions property.
Reply(text, m, cat, count, has, list) ==
    [ kind |-> "reply", content |-> text, marks |-> m, category |-> cat,
      count |-> count, hasSuggestions |-> has, suggestions |-> list ]

FixedReply(text) == Reply(text, Null, <<>>, 0, FALSE, <<>>)

\* input.includes('hi') || input.includes('hello') || input.includes('hey')
IsGreeting(input) ==
    includes(input, Hi) \/ includes(input, Hello) \/ includes(input, Hey)

\* input.includes('how are you') || input.includes('how do you do')
IsWellBeing(input) == includes(input, HowAreYou) \/ includes(input, HowDoYouDo)

\* Reading [1] of a match: a TypeError when the match is null.
TypeError == <<"TypeError">>

Group1(match) == IF match = <<>> THEN TypeError ELSE match

\* The outcome of a call that ends in an exception.
Thrown ==
    [ kind |-> "exception", content |-> "TypeError", marks |-> Null, category |-> <<>>,
      count |-> 0, hasSuggestions |-> FALSE, suggestions |-> <<>> ]

\* Mutant of MatcherReply: the suggestions are attached whatever their number.
MatcherReplyAlwaysAttached(m, cat, found) ==
    Reply("found", m, cat, Len(found), TRUE, found)

\* if (suggestions.length > 0) { ... } else { ... }
MatcherReply(m, cat, found) ==
    IF Len(found) > 0
    THEN Reply("found", m, cat, Len(found), TRUE, found)
    ELSE Reply("nomatch", m, cat, 0, FALSE, <<>>)

\* Mutant of Rule: the marks and category test comes first.
RuleMatcherFirst(input, mMatch, cMatch) ==
    IF mMatch # <<>> /\ cMatch # <<>> THEN 3
    ELSE IF IsGreeting(input) THEN 1
    ELSE IF IsWellBeing(input) THEN 2
    ELSE IF \/ includes(input, CollegeWord)
            \/ includes(input, EngineeringWord)
            \/ includes(input, CutoffWord)
    THEN 4
    ELSE 5

\* Mutant of Rule: one of the two matches is enough.
RuleEitherMatch(input, mMatch, cMatch) ==
    IF IsGreeting(input) THEN 1
    ELSE IF IsWellBeing(input) THEN 2
    ELSE IF mMatch # <<>> \/ cMatch # <<>> THEN 3
    ELSE IF \/ includes(input, CollegeWord)
            \/ includes(input, EngineeringWord)
            \/ includes(input, CutoffWord)
    THEN 4
    ELSE 5

\* The chain of if statements: the number of the first one whose test holds
\* (5: the default response).
Rule(input, mMatch, cMatch) ==
    IF IsGreeting(input) THEN 1
    ELSE IF IsWellBeing(input) THEN 2
    ELSE IF mMatch # <<>> /\ cMatch # <<>> THEN 3
    ELSE IF \/ includes(input, CollegeWord)
            \/ includes(input, EngineeringWord)
            \/ includes(input, CutoffWord)
    THEN 4
    ELSE 5

\* A call that does not reach the matcher.
NotCalled(r) ==
    [ called |-> FALSE, marks |-> Null, category |-> <<>>, found |-> <<>>, reply |-> r ]

\* One call of generateAIResponse: whether it called findCollegesByMarks, with
\* which marks and category, what that returned, and the reply.
Respond(userText, data) ==
    LET input == toLowerCase(userText)
        mMatch == marksMatch(input)
        cMatch == categoryMatch(input)
        rule == Rule(input, mMatch, cMatch)
    IN  IF rule = 1 THEN NotCalled(FixedReply("greeting"))
        ELSE IF rule = 2 THEN NotCalled(FixedReply("wellbeing"))
        ELSE IF rule = 3
        THEN IF Group1(mMatch) = TypeError \/ Group1(cMatch) = TypeError
             THEN NotCalled(Thrown)
             ELSE LET m == parseFloat(Group1(mMatch))
                      cat == toUpperCase(Group1(cMatch))
                      found == findCollegesByMarks(m, cat, data)
                  IN  [ called |-> TRUE, marks |-> m, category |-> cat,
                        found |-> found, reply |-> MatcherReply(m, cat, found) ]
        ELSE IF rule = 4 THEN NotCalled(FixedReply("prompt"))
        ELSE NotCalled(FixedReply("help"))

generateAIResponse(userText, data) == Respond(userText, data).reply

(***************************************************************************)
(* The texts and catalogs the reply generator is called on                 *)
(***************************************************************************)

\* Largest number of pieces a text is put together from.
MaxPieces == 4

\* The pieces of a text.
Pieces ==
    { <<" ">>, <<".">>, <<"m">>, <<"1", "8">>, <<"5">>, <<"B", "c">> }

\* Words a text may start with.
LeadWords ==
    { <<"h", "i", " ">>,
      <<"t", "h", "i", "s", " ">>,
      <<"C", "o", "l", "l", "e", "g", "e", " ">>,
      <<"H", "o", "w", " ", "a", "r", "e", " ", "y", "o", "u", " ">>,
      <<"2", "0", "2", "4", " ">>,
      <<"c", "s", "e", "2", " ">> }

RECURSIVE TextsOfPieces(_)
TextsOfPieces(k) ==
    IF k = 0 THEN { <<>> }
    ELSE { t \o p : t \in TextsOfPieces(k - 1), p \in Pieces }

\* Every text of at most MaxPieces pieces, and every text of a lead word
\* and fewer pieces.
Texts ==
    UNION { TextsOfPieces(k) : k \in 0..MaxPieces }
        \cup { w \o t : w \in LeadWords,
                         t \in UNION { TextsOfPieces(k) : k \in 0..(MaxPieces - 1) } }

\* One college for each cutoffs object, two branches each.
SampleCatalog == [ i \in 1..Len(CutoffProfileSeq) |-> College(i, 2, CutoffProfileSeq[i]) ]

\* A message of the transcript: a user turn carries its text, an assistant
\* turn the object generateAIResponse returned.
Message(type, text, r) == [ type |-> type, content |-> text, reply |-> r ]

\* The assistant turn every transcript starts with.
WelcomeMessage == Message("ai", <<>>, FixedReply("welcome"))

\* useState([...]) of chatHistory: the two titles the sidebar starts with.
InitialChatHistory ==
    << << "C", "o", "l", "l", "e", "g", "e", " ", "s", "u", "g", "g", "e", "s", "t", "i", "o", "n", "s", " ", "f", "o", "r", " ", "C", "S", "E" >>,
       << "C", "u", "t", "o", "f", "f", " ", "m", "a", "r", "k", "s", " ", "q", "u", "e", "r", "y" >> >>

\* No recognition object is running: none listens, none waits for its end
\* event.
NoRecognition == [ supported |-> FALSE, listening |-> 0, ending |-> 0 ]

\* The component as its useState calls leave it.
ChatAtRest ==
    /\ messages = <<WelcomeMessage>>
    /\ inputValue = <<>>
    /\ isLoading = FALSE
    /\ isListening = FALSE
    /\ chatHistory = InitialChatHistory
    /\ timers = <<>>
    /\ recognition = NoRecognition
    /\ toast = "none"
    /\ calls = 0

\* An AIConfig without keys.
NoConfig ==
    [ openaiApiKey |-> "undefined", elevenLabsApiKey |-> "undefined",
      vapiApiKey |-> "undefined" ]

\* No response has arrived.
NoResponse == [ ok |-> FALSE, body |-> "none" ]

\* No method of the service has been called: no fetch issued, no response,
\* no promise settled.
ApiIdle ==
    [ method |-> "none", phase |-> "idle", requests |-> 0, fetch |-> "none",
      response |-> NoResponse, outcome |-> "none", result |-> "none" ]

ServiceAtRest == config = NoConfig /\ api = ApiIdle

ClassifyInit ==
    /\ ChatAtRest
    /\ ServiceAtRest
    /\ collegesData = SampleCatalog
    /\ userInput \in Texts
    /\ marks = Null
    /\ category = <<>>
    /\ suggestions = <<>>
    /\ reply = NoReply
    /\ pc = "start"

\* A call of generateAIResponse; marks, category and suggestions are its
\* locals, assigned when the matcher is called.  An exception leaves the
\* call at "threw".
GenerateAIResponse ==
    /\ pc = "start"
    /\ LET r == Respond(userInput, collegesData)
       IN  /\ reply' = r.reply
           /\ IF r.called
              THEN /\ marks' = r.marks
                   /\ category' = r.category
                   /\ suggestions' = r.found
              ELSE UNCHANGED <<marks, category, suggestions>>
           /\ pc' = IF r.reply.kind = "exception" THEN "threw" ELSE "done"
    /\ UNCHANGED <<collegesData, userInput, uiVars, apiVars>>

ClassifyNext == GenerateAIResponse

ClassifySpec == ClassifyInit /\ [][ClassifyNext]_vars

(***************************************************************************)
(* The reply generator called on the example message, on every catalog     *)
(***************************************************************************)

\* 'I scored 185 marks in BC category'
ScenarioText ==
    << "I", " ", "s", "c", "o", "r", "e", "d", " ", "1", "8", "5", " ",
       "m", "a", "r", "k", "s", " ", "i", "n", " ", "B", "C", " ",
       "c", "a", "t", "e", "g", "o", "r", "y" >>

ScenarioInit ==
    /\ ChatAtRest
    /\ ServiceAtRest
    /\ collegesData \in Catalogs
    /\ userInput = ScenarioText
    /\ marks = Null
    /\ category = <<>>
    /\ suggestions = <<>>
    /\ reply = NoReply
    /\ pc = "start"

ScenarioSpec == ScenarioInit /\ [][ClassifyNext]_vars

(***************************************************************************)
(* The matcher called on a score and a category                            *)
(***************************************************************************)

MatchMarks == { Num(0, 1), Num(1835, 10), Num(185, 1) }

MatchCategories == { BC, OC, ST }

MatchInit ==
    /\ ChatAtRest
    /\ ServiceAtRest
    /\ collegesData \in Catalogs
    /\ marks \in MatchMarks
    /\ category \in MatchCategories
    /\ suggestions = <<>>
    /\ userInput = <<>>
    /\ reply = NoReply
    /\ pc = "start"

FindColleges ==
    /\ pc = "start"
    /\ suggestions' = findCollegesByMarks(marks, category, collegesData)
    /\ pc' = "done"
    /\ UNCHANGED <<collegesData, marks, category, userInput, reply, uiVars, apiVars>>

MatchNext == FindColleges

MatchSpec == MatchInit /\ [][MatchNext]_vars

\* One more call with the same marks and category, on the catalog as the
\* calls before have left it.
FindCollegesAgain ==
    /\ pc \in {"done", "again"}
    /\ suggestions' = findCollegesByMarks(marks, category, collegesData)
    /\ pc' = "again"
    /\ UNCHANGED <<collegesData, marks, category, userInput, reply, uiVars, apiVars>>

RepeatNext == FindColleges \/ FindCollegesAgain

\* The matcher called again and again.
RepeatSpec == MatchInit /\ [][RepeatNext]_vars

(***************************************************************************)
(* The chat interface: the event handlers of ChatInterface                 *)
(***************************************************************************)

\* Largest number of calls of handleSendMessage in a run.
MaxCalls == 2

\* Largest number of speech recognitions alive at a time.
MaxRecognitions == 1

\* slice(0, 30) of the first user message is the title of a saved chat.
TitleLimit == 30

Whitespace == { " " }

\* String.prototype.trim
RECURSIVE TrimStart(_)
TrimStart(t) ==
    IF t # <<>> /\ Head(t) \in Whitespace THEN TrimStart(Tail(t)) ELSE t

RECURSIVE TrimEnd(_)
TrimEnd(t) ==
    IF t # <<>> /\ t[Len(t)] \in Whitespace
    THEN TrimEnd(SubSeq(t, 1, Len(t) - 1))
    ELSE t

trim(t) == TrimEnd(TrimStart(t))

\* A message longer than a title.
LongText ==
    << "H", "o", "w", " ", "a", "r", "e", " ", "y", "o", "u", " ", "t", "o", "d", "a", "y", ",", " ", "Z", "u", "d", "o", "r", "a", "?", " ", "I", " ", "a", "m", " ", "f", "i", "n", "e" >>

\* What the user types into the input.
InputTexts ==
    { <<>>,
      << " ", " " >>,
      << " ", "5", " ", "B", "c", "m", " " >>,
      LongText }

\* What a speech recognition hears.
Transcripts == { << "1", "8", "5", " ", "o", "c" >> }

\* Mutant of InputDisabled: the input stays enabled while a reply is pending.
InputNeverDisabled == FALSE

\* disabled={isLoading} of the Input and of the microphone button.
InputDisabled == isLoading

\* disabled={isLoading || !inputValue.trim()} of the send button.
SendDisabled == isLoading \/ trim(inputValue) = <<>>

\* Mutant of IsBlank: no input is taken for blank.
IsNeverBlank(t) == FALSE

\* !inputValue.trim()
IsBlank(t) == trim(t) = <<>>

\* handleSendMessage: a blank input returns at once; otherwise the user turn
\* is appended, the input cleared, isLoading set and the reply timer started
\* with the trimmed text.
handleSendMessage ==
    /\ calls < MaxCalls
    /\ calls' = calls + 1
    /\ IF IsBlank(inputValue)
       THEN UNCHANGED <<messages, inputValue, isLoading, timers>>
       ELSE /\ messages' = Append(messages, Message("user", trim(inputValue), NoReply))
            /\ inputValue' = <<>>
            /\ isLoading' = TRUE
            /\ timers' = Append(timers, trim(inputValue))
    /\ UNCHANGED <<isListening, chatHistory, recognition, toast, coreVars, apiVars>>

\* onChange of the input: setInputValue(e.target.value).
InputChange ==
    /\ ~InputDisabled
    /\ \E t \in InputTexts :
          /\ t # inputValue
          /\ inputValue' = t
    /\ UNCHANGED <<messages, isLoading, isListening, chatHistory, timers,
                   recognition, toast, calls, coreVars, apiVars>>

\* handleKeyPress with Enter and without shift, on the enabled input.
KeyPressEnter ==
    /\ ~InputDisabled
    /\ handleSendMessage

\* A click on the enabled send button.
ClickSend ==
    /\ ~SendDisabled
    /\ handleSendMessage

\* The setTimeout callback of the oldest pending submission: the reply to
\* the text the timer was started with is appended and isLoading cleared.
TimerFire ==
    /\ timers # <<>>
    /\ timers' = Tail(timers)
    /\ isLoading' = FALSE
    /\ LET aiResponse == generateAIResponse(Head(timers), collegesData)
       IN  messages' = Append(messages, Message("ai", <<>>, aiResponse))
    /\ UNCHANGED <<inputValue, isListening, chatHistory, recognition, toast,
                   calls, coreVars, apiVars>>

\* handleVoiceInput, by a click on the enabled microphone button, in a
\* browser without speech recognition: the toast and nothing else.
VoiceInputUnsupported ==
    /\ ~InputDisabled
    /\ ~recognition.supported
    /\ toast # "Voice input not supported"
    /\ toast' = "Voice input not supported"
    /\ UNCHANGED <<messages, inputValue, isLoading, isListening, chatHistory,
                   timers, recognition, calls, coreVars, apiVars>>

\* handleVoiceInput in a browser with speech recognition: a recognition is
\* created and started.
handleVoiceInput ==
    /\ ~InputDisabled
    /\ recognition.supported
    /\ recognition.listening + recognition.ending < MaxRecognitions
    /\ isListening' = TRUE
    /\ recognition' = [recognition EXCEPT !.listening = @ + 1]
    /\ UNCHANGED <<messages, inputValue, isLoading, chatHistory, timers,
                   toast, calls, coreVars, apiVars>>

\* recognition.onresult: the transcript replaces the input.
RecognitionResult ==
    /\ recognition.listening > 0
    /\ \E transcript \in Transcripts : inputValue' = transcript
    /\ isListening' = FALSE
    /\ recognition' = [recognition EXCEPT !.listening = @ - 1, !.ending = @ + 1]
    /\ UNCHANGED <<messages, isLoading, chatHistory, timers, toast, calls,
                   coreVars, apiVars>>

\* recognition.onerror
RecognitionError ==
    /\ recognition.listening > 0
    /\ isListening' = FALSE
    /\ toast' = "Voice input error"
    /\ recognition' = [recognition EXCEPT !.listening = @ - 1, !.ending = @ + 1]
    /\ UNCHANGED <<messages, inputValue, isLoading, chatHistory, timers, calls,
                   coreVars, apiVars>>

\* recognition.onend, after a result or an error.
RecognitionEnd ==
    /\ recognition.ending > 0
    /\ isListening' = FALSE
    /\ recognition' = [recognition EXCEPT !.ending = @ - 1]
    /\ UNCHANGED <<messages, inputValue, isLoading, chatHistory, timers, toast,
                   calls, coreVars, apiVars>>

\* messages.filter(msg => msg.type === 'user')
UserMessages(msgs) == SelectSeq(msgs, LAMBDA msg : msg.type = "user")

\* content.slice(0, 30) + (content.length > 30 ? '...' : '')
Title(content) ==
    SubSeq(content, 1, IF Len(content) < TitleLimit THEN Len(content) ELSE TitleLimit)
        \o (IF Len(content) > TitleLimit THEN << ".", ".", "." >> ELSE <<>>)

\* handleNewChat, by a click on New Chat of the sidebar (always open: nothing
\* calls setIsSidebarOpen): a conversation with user messages is saved under
\* its title, the transcript reset to the welcome turn, the input cleared.
handleNewChat ==
    /\ LET userMessages == UserMessages(messages)
       IN  IF Len(userMessages) > 0
           THEN chatHistory' = <<Title(userMessages[1].content)>> \o chatHistory
           ELSE UNCHANGED chatHistory
    /\ messages' = <<WelcomeMessage>>
    /\ inputValue' = <<>>
    /\ toast' = "New chat started"
    /\ UNCHANGED <<isLoading, isListening, timers, recognition, calls,
                   coreVars, apiVars>>

\* handleDeleteHistory, by a click on Delete Chat History of the sidebar.
handleDeleteHistory ==
    /\ chatHistory' = <<>>
    /\ toast' = "Chat history cleared"
    /\ UNCHANGED <<messages, inputValue, isLoading, isListening, timers,
                   recognition, calls, coreVars, apiVars>>

\* The mounted component, in a browser with or without speech recognition.
Init ==
    /\ messages = <<WelcomeMessage>>
    /\ inputValue = <<>>
    /\ isLoading = FALSE
    /\ isListening = FALSE
    /\ chatHistory = InitialChatHistory
    /\ timers = <<>>
    /\ recognition \in { [ supported |-> b, listening |-> 0, ending |-> 0 ] : b \in BOOLEAN }
    /\ toast = "none"
    /\ calls = 0
    /\ ServiceAtRest
    /\ collegesData = SampleCatalog
    /\ marks = Null
    /\ category = <<>>
    /\ suggestions = <<>>
    /\ userInput = <<>>
    /\ reply = NoReply
    /\ pc = "ui"

Next ==
    \/ InputChange
    \/ KeyPressEnter
    \/ ClickSend
    \/ TimerFire
    \/ VoiceInputUnsupported
    \/ handleVoiceInput
    \/ RecognitionResult
    \/ RecognitionError
    \/ RecognitionEnd
    \/ handleNewChat
    \/ handleDeleteHistory

Spec == Init /\ [][Next]_vars

\* The oldest pending timer goes off: the step TimerFire takes.
TimerGoesOff == timers # <<>> /\ timers' = Tail(timers)

\* The timer of a pending submission goes off in the end.
FairSpec == Spec /\ WF_timers(TimerGoesOff)

(***************************************************************************)
(* ZudoraAIService: processWithOpenAI, synthesizeSpeech and                *)
(* initializeVapiSession                                                   *)
(***************************************************************************)

Methods == { "processWithOpenAI", "synthesizeSpeech", "initializeVapiSession" }

\* An optional key of AIConfig: absent, empty or set.
KeyValues == { "undefined", "", "key" }

Configs ==
    [ openaiApiKey : KeyValues, elevenLabsApiKey : KeyValues, vapiApiKey : KeyValues ]

\* this.config.<key> read by the method.
KeyOf(method, cfg) ==
    CASE method = "processWithOpenAI" -> cfg.openaiApiKey
      [] method = "synthesizeSpeech" -> cfg.elevenLabsApiKey
      [] method = "initializeVapiSession" -> cfg.vapiApiKey

\* !this.config.<key> is false.
KeyConfigured(method, cfg) == KeyOf(method, cfg) \notin { "undefined", "" }

\* throw new Error('... API key not configured')
NotConfiguredError(method) ==
    CASE method = "processWithOpenAI" -> "OpenAI API key not configured"
      [] method = "synthesizeSpeech" -> "ElevenLabs API key not configured"
      [] method = "initializeVapiSession" -> "Vapi API key not configured"

\* The error thrown by the catch block.
FixedError(method) ==
    CASE method = "processWithOpenAI" -> "Failed to process with OpenAI"
      [] method = "synthesizeSpeech" -> "Failed to synthesize speech"
      [] method = "initializeVapiSession" -> "Failed to initialize Vapi session"

\* What the body of a response can be: a stream that fails while it is read,
\* bytes that are no JSON, or the JSON of null, of an object without choices
\* and id, of { choices: [] }, of { choices: [{}] }, of a completion with an
\* empty or a non-empty content, of { id: '' } and of { id: 'call' }.
Bodies ==
    { "unreadable", "unparsable", "null", "noFields", "emptyChoices", "noMessage",
      "emptyContent", "content", "emptyId", "id" }

Responses == [ ok : BOOLEAN, body : Bodies ]

Fallback == "Sorry, I could not process your request."

\* A promise rejected with the error of the catch block.
Rejected(a) == [a EXCEPT !.phase = "settled", !.outcome = "rejected",
                         !.result = FixedError(a.method)]

Resolved(a, value) == [a EXCEPT !.phase = "settled", !.outcome = "resolved",
                                !.result = value]

\* response.json() rejects.
JsonFails(body) == body \in { "unreadable", "unparsable" }

\* data.choices[0]?.message?.content || 'Sorry, ...' after response.json():
\* a TypeError on null and on data without choices.
OpenAIAfterResponse(a) ==
    LET body == a.response.body
    IN  IF JsonFails(body) \/ body \in { "null", "noFields", "emptyId", "id" }
        THEN Rejected(a)
        ELSE IF body = "content" THEN Resolved(a, "content")
        ELSE Resolved(a, Fallback)

\* Mutant of StatusChecked: no method looks at response.ok.
StatusNeverChecked(method) == FALSE

\* if (!response.ok) throw ...: in synthesizeSpeech only.
StatusChecked(method) == method = "synthesizeSpeech"

\* if (!response.ok) throw ...; return await response.arrayBuffer()
SpeechAfterResponse(a) ==
    IF StatusChecked(a.method) /\ ~a.response.ok THEN Rejected(a)
    ELSE IF a.response.body = "unreadable" THEN Rejected(a)
    ELSE Resolved(a, "ArrayBuffer")

\* data.id || '' after response.json(): a TypeError on null.
VapiAfterResponse(a) ==
    LET body == a.response.body
    IN  IF JsonFails(body) \/ body = "null" THEN Rejected(a)
        ELSE IF body = "id" THEN Resolved(a, "call")
        ELSE Resolved(a, "")

\* A method is called: without its key the promise is rejected before the
\* try block; with it, fetch is called once and awaited.
CallMethod ==
    /\ api.phase = "idle"
    /\ \E method \in Methods :
          api' = IF KeyConfigured(method, config)
                 THEN [api EXCEPT !.method = method, !.phase = "fetching",
                                  !.requests = @ + 1, !.fetch = "pending"]
                 ELSE [api EXCEPT !.method = method, !.phase = "settled",
                                  !.outcome = "rejected",
                                  !.result = NotConfiguredError(method)]
    /\ UNCHANGED <<config, coreVars, uiVars>>

\* The promise of fetch is rejected: the catch block throws the fixed error.
FetchRejects ==
    /\ api.phase = "fetching"
    /\ api' = Rejected([api EXCEPT !.fetch = "rejected"])
    /\ UNCHANGED <<config, coreVars, uiVars>>

\* The promise of fetch is fulfilled with a response of any status and body.
FetchResponds ==
    /\ api.phase = "fetching"
    /\ \E response \in Responses :
          api' = [api EXCEPT !.phase = "responded", !.fetch = "fulfilled",
                             !.response = response]
    /\ UNCHANGED <<config, coreVars, uiVars>>

\* The rest of the try block, after await fetch(...).
AfterResponse ==
    /\ api.phase = "responded"
    /\ api' = CASE api.method = "processWithOpenAI" -> OpenAIAfterResponse(api)
                [] api.method = "synthesizeSpeech" -> SpeechAfterResponse(api)
                [] api.method = "initializeVapiSession" -> VapiAfterResponse(api)
    /\ UNCHANGED <<config, coreVars, uiVars>>

\* A service constructed with any configuration, no method called yet.
ApiInit ==
    /\ config \in Configs
    /\ api = ApiIdle
    /\ ChatAtRest
    /\ collegesData = SampleCatalog
    /\ marks = Null
    /\ category = <<>>
    /\ suggestions = <<>>
    /\ userInput = <<>>
    /\ reply = NoReply
    /\ pc = "api"

ApiNext == CallMethod \/ FetchRejects \/ FetchResponds \/ AfterResponse

ApiSpec == ApiInit /\ [][ApiNext]_vars

(***************************************************************************)
(* Properties of the matcher                                               *)
(***************************************************************************)

\* The (college, branch) index pairs of a catalog.
Pairs(data) ==
    { <<i, j>> : i \in 1..Len(data), j \in 1..MaxBranches } \cap
    UNION { { <<i, j>> : j \in 1..Len(data[i].branches) } : i \in 1..Len(data) }

\* The catalog records a number for category cat on pair pr.
Recorded(data, pr, cat) ==
    LET cutoffs == data[pr[1]].branches[pr[2]].cutoffs_2024
    IN  cat \in DOMAIN cutoffs /\ cutoffs[cat].type = "number"

\* Suggestion s names pair pr of the catalog.
Names(s, data, pr) ==
    /\ s.college_name = data[pr[1]].college_name
    /\ s.address = data[pr[1]].address
    /\ s.branch_name = data[pr[1]].branches[pr[2]].branch_name

\* C1: every Suggestion returned by findCollegesByMarks(s, c) has cutoff <= s,
\* and its cutoff is the value the catalog records for category c on the
\* (college, branch) pair the Suggestion names.
C1_CutoffWithinScore ==
    pc = "done" =>
        \A k \in 1..Len(suggestions) :
            /\ Geq(marks, suggestions[k].cutoff)
            /\ \E pr \in Pairs(collegesData) :
                   /\ Names(suggestions[k], collegesData, pr)
                   /\ Recorded(collegesData, pr, category)
                   /\ collegesData[pr[1]].branches[pr[2]].cutoffs_2024[category]
                          = suggestions[k].cutoff

\* C1 witness: a call returned suggestions while some branch of the catalog
\* records a cutoff above the score.
C1_Witness ==
    /\ pc = "done"
    /\ Len(suggestions) > 0
    /\ \E pr \in Pairs(collegesData) :
           /\ Recorded(collegesData, pr, category)
           /\ Gt(collegesData[pr[1]].branches[pr[2]].cutoffs_2024[category], marks)

\* C2: the returned sequence is sorted non-increasing by cutoff and has at
\* most 10 elements.
C2_SortedTopTen ==
    pc = "done" =>
        /\ Len(suggestions) <= TopN
        /\ \A k \in 1..(Len(suggestions) - 1) :
               Geq(suggestions[k].cutoff, suggestions[k + 1].cutoff)

\* C2 witness: more than 10 branches qualify, in an order that is not sorted,
\* and the call returned 10 suggestions with different cutoffs.
C2_Witness ==
    /\ pc = "done"
    /\ Len(suggestions) = TopN
    /\ suggestions[1].cutoff # suggestions[TopN].cutoff
    /\ LET all == CollegeScan(collegesData, 1, marks, category)
       IN  /\ Len(all) > TopN
           /\ \E k \in 1..(Len(all) - 1) : Gt(all[k + 1].cutoff, all[k].cutoff)

\* Every cutoff the catalog holds is a non-negative number (or is absent).
CatalogWellFormed(data) ==
    \A pr \in Pairs(data) :
        LET cutoffs == data[pr[1]].branches[pr[2]].cutoffs_2024
        IN  \A cat \in DOMAIN cutoffs :
                cutoffs[cat].type = "number" /\ cutoffs[cat].num >= 0

\* The pairs whose cutoff for cat is present and <= m.
QualifyingPairs(data, m, cat) ==
    { pr \in Pairs(data) :
        /\ Recorded(data, pr, cat)
        /\ Geq(m, data[pr[1]].branches[pr[2]].cutoffs_2024[cat]) }

Min(a, b) == IF a < b THEN a ELSE b

\* C3 (as claimed): on a catalog of non-negative or absent cutoffs the result
\* has exactly min(10, N) elements, N the number of pairs whose cutoff is
\* present and <= score, and no such pair with a cutoff above the smallest
\* returned cutoff is left out; cutoff 0 included.
C3_EveryQualifyingPairEmitted ==
    (pc = "done" /\ CatalogWellFormed(collegesData)) =>
        LET q == QualifyingPairs(collegesData, marks, category)
        IN  /\ Len(suggestions) = Min(TopN, Cardinality(q))
            /\ \A pr \in q :
                   LET c == collegesData[pr[1]].branches[pr[2]].cutoffs_2024[category]
                   IN  (Len(suggestions) > 0 /\ Gt(c, suggestions[Len(suggestions)].cutoff))
                           => \E k \in 1..Len(suggestions) :
                                  /\ Names(suggestions[k], collegesData, pr)
                                  /\ suggestions[k].cutoff = c

(***************************************************************************)
(* Properties of the reply generator                                       *)
(***************************************************************************)

\* The tokens of a text: the maximal runs of word characters, as <<first, last>>.
WordRuns(s) ==
    { r \in (1..Len(s)) \X (1..Len(s)) :
        /\ r[1] <= r[2]
        /\ \A k \in r[1]..r[2] : IsWordChar(s[k])
        /\ r[1] = 1 \/ ~IsWordChar(s[r[1] - 1])
        /\ r[2] = Len(s) \/ ~IsWordChar(s[r[2] + 1]) }

RunText(s, r) == SubSeq(s, r[1], r[2])

AllDigits(t) == \A k \in 1..Len(t) : IsDigit(t[k])

\* Tokens hi, hello, hey.
GreetingRuns(s) ==
    { r \in WordRuns(s) : toLowerCase(RunText(s, r)) \in {Hi, Hello, Hey} }

\* Tokens of 1 to 3 digits.
ScoreRuns(s) ==
    { r \in WordRuns(s) : AllDigits(RunText(s, r)) /\ r[2] - r[1] + 1 <= 3 }

\* Tokens that are one of the 7 category codes, in any letter case.
CategoryRuns(s) ==
    { r \in WordRuns(s) : toLowerCase(RunText(s, r)) \in Range(CategoryAlternatives) }

Leftmost(runs) == CHOOSE r \in runs : \A q \in runs : r[1] <= q[1]

\* The matcher was called by generateAIResponse.
MatcherCalled == pc = "done" /\ category # <<>>

\* C4: a text with a greeting token and a valid score/category pair gets the
\* fixed greeting reply, without suggestions, and the matcher is not called.
C4_GreetingPrecedence ==
    ( /\ pc # "start"
      /\ GreetingRuns(userInput) # {}
      /\ ScoreRuns(userInput) # {}
      /\ CategoryRuns(userInput) # {} )
        => /\ pc = "done"
           /\ reply = FixedReply("greeting")
           /\ ~reply.hasSuggestions
           /\ ~MatcherCalled
           /\ suggestions = <<>>

\* C4 witness: a call on a text with the token hi whose score and category
\* tokens alone reach the matcher.
C4_Witness ==
    /\ pc = "done"
    /\ GreetingRuns(userInput) # {}
    /\ ScoreRuns(userInput) # {}
    /\ CategoryRuns(userInput) # {}
    /\ LET d == Respond(RunText(userInput, Leftmost(ScoreRuns(userInput)))
                            \o <<" ">>
                            \o RunText(userInput, Leftmost(CategoryRuns(userInput))),
                        collegesData)
       IN  d.called

\* C5 (as claimed): a text without a greeting token and without a well-being
\* phrase, with a token of 1-3 digits and a category token, takes rule 3: the
\* matcher is called and the reply is the matcher-based one.
C5_ScoreAndCategoryReachMatcher ==
    ( /\ pc # "start"
      /\ GreetingRuns(userInput) = {}
      /\ ~IsWellBeing(toLowerCase(userInput))
      /\ ScoreRuns(userInput) # {}
      /\ CategoryRuns(userInput) # {} )
        => /\ MatcherCalled
           /\ reply.content \in {"found", "nomatch"}
           /\ reply = MatcherReply(marks, category,
                                   findCollegesByMarks(marks, category, collegesData))

\* The first numeric substring of a text: from its first digit, the digits
\* that follow and a decimal part when there is one.
FirstNumericSubstring(s) ==
    LET digits == { i \in 1..Len(s) : IsDigit(s[i]) }
        i == Least(digits)
        n == Max({ n1 \in 1..Len(s) : DigitRun(s, i, n1) })
        ks == { k \in 1..Len(s) :
                  i + n <= Len(s) /\ s[i + n] = "." /\ DigitRun(s, i + n + 1, k) }
    IN  IF ks = {} THEN SubSeq(s, i, i + n - 1) ELSE SubSeq(s, i, i + n + Max(ks))

\* The first category substring of a text: at the leftmost place where a code
\* occurs, in any letter case, the longest code occurring there.
FirstCategorySubstring(s) ==
    LET occurs(i, a) ==
            /\ i + Len(CategoryAlternatives[a]) - 1 <= Len(s)
            /\ toLowerCase(SubSeq(s, i, i + Len(CategoryAlternatives[a]) - 1))
                   = CategoryAlternatives[a]
        places == { i \in 1..Len(s) : \E a \in DOMAIN CategoryAlternatives : occurs(i, a) }
        i == Least(places)
        len == Max({ Len(CategoryAlternatives[a]) : a \in { b \in DOMAIN CategoryAlternatives : occurs(i, b) } })
    IN  SubSeq(s, i, i + len - 1)

\* C6 (as claimed): when rule 3 applies the matcher gets the first numeric
\* substring and the first category substring found anywhere in the text.
C6_FirstSubstringsExtracted ==
    MatcherCalled =>
        /\ marks = parseFloat(FirstNumericSubstring(userInput))
        /\ toLowerCase(category) = toLowerCase(FirstCategorySubstring(userInput))

\* The first score token: the leftmost token of 1 to 3 digits, with the dot
\* and the token behind it when that token is all digits.
FirstScoreToken(s) ==
    LET r == Leftmost(ScoreRuns(s))
        decimals == { q \in WordRuns(s) :
                        /\ q[1] = r[2] + 2
                        /\ s[r[2] + 1] = "."
                        /\ AllDigits(RunText(s, q)) }
    IN  IF decimals = {} THEN RunText(s, r)
        ELSE SubSeq(s, r[1], (CHOOSE q \in decimals : TRUE)[2])

\* C6 (amended): when rule 3 applies the matcher gets the leftmost token of
\* 1 to 3 digits (with its decimal part), skipping longer digit runs and
\* digits adjacent to letters, and the leftmost category token.
C6_FirstTokensExtracted ==
    MatcherCalled =>
        /\ ScoreRuns(userInput) # {}
        /\ CategoryRuns(userInput) # {}
        /\ marks = parseFloat(FirstScoreToken(userInput))
        /\ toLowerCase(category)
               = toLowerCase(RunText(userInput, Leftmost(CategoryRuns(userInput))))

\* C6 witness: rule 3 applied to a text whose first numeric substring is not
\* a token of 1 to 3 digits and whose score token comes later.
C6_Witness ==
    /\ MatcherCalled
    /\ FirstNumericSubstring(userInput) # FirstScoreToken(userInput)
    /\ marks = parseFloat(FirstScoreToken(userInput))

\* The texts that differ from s in the letter case of its category tokens.
RECURSIVE CaseVariantsFrom(_, _, _)
CaseVariantsFrom(s, i, runs) ==
    IF i > Len(s) THEN { <<>> }
    ELSE LET here == IF \E r \in runs : r[1] <= i /\ i <= r[2]
                     THEN { ToLowerChar(s[i]), ToUpperChar(s[i]) }
                     ELSE { s[i] }
         IN  { <<c>> \o rest : c \in here, rest \in CaseVariantsFrom(s, i + 1, runs) }

CaseVariants(s) == CaseVariantsFrom(s, 1, CategoryRuns(s))

\* C7: changing the letter case of the category tokens changes neither the
\* reply nor the suggestions, and the category the matcher gets is the
\* upper-case code of the whole token, one of the seven.
C7_CategoryCaseInsensitive ==
    pc = "done" =>
        /\ \A v \in CaseVariants(userInput) :
               generateAIResponse(v, collegesData) = reply
        /\ MatcherCalled =>
               /\ category \in Categories
               /\ CategoryRuns(userInput) # {}
               /\ toLowerCase(category)
                      = toLowerCase(RunText(userInput, Leftmost(CategoryRuns(userInput))))

\* C7 witness: rule 3 applied to a text whose category token is bcm in mixed
\* case, with suggestions found.
C7_Witness ==
    /\ MatcherCalled
    /\ category = BCM
    /\ Cardinality(CaseVariants(userInput)) > 1
    /\ RunText(userInput, Leftmost(CategoryRuns(userInput))) \notin { BCM, toLowerCase(BCM) }
    /\ reply.hasSuggestions

\* C8: when rule 3 applies the reply has a suggestions list exactly when the
\* matcher result is non-empty; then the list is the matcher's result and the
\* count in the text is its length; otherwise the reply is the no-match text.
C8_SuggestionsAttachedIffFound ==
    MatcherCalled =>
        /\ suggestions = findCollegesByMarks(marks, category, collegesData)
        /\ reply.hasSuggestions <=> Len(suggestions) > 0
        /\ reply.hasSuggestions =>
               /\ reply.content = "found"
               /\ reply.suggestions = suggestions
               /\ reply.count = Len(reply.suggestions)
        /\ ~reply.hasSuggestions =>
               /\ reply.content = "nomatch"
               /\ reply.suggestions = <<>>

\* C8 witness: rule 3 applied and several suggestions attached.
C8_Witness ==
    /\ MatcherCalled
    /\ reply.hasSuggestions
    /\ Len(reply.suggestions) > 1
    /\ reply.suggestions[1].cutoff # reply.suggestions[Len(reply.suggestions)].cutoff

\* The texts a reply may carry: four fixed ones and the two templates.
ReplyTexts == { "greeting", "wellbeing", "found", "nomatch", "prompt", "help" }

\* C10: on every text and catalog the call returns a reply and the matcher a
\* sequence; no exception leaves either.
C10_Total ==
    /\ pc # "threw"
    /\ pc = "done" =>
           /\ reply.kind = "reply"
           /\ reply.content \in ReplyTexts
           /\ MatcherCalled => Len(suggestions) \in 0..TopN

\* C10 witness: a call on a text with digits and no category returned the
\* help reply.
C10_Witness ==
    /\ pc = "done"
    /\ marksMatch(toLowerCase(userInput)) # <<>>
    /\ categoryMatch(toLowerCase(userInput)) = <<>>
    /\ reply = FixedReply("help")

(***************************************************************************)
(* Properties of the example message                                       *)
(***************************************************************************)

\* The pairs whose BC cutoff is 180.
PairsAt180(data) ==
    { pr \in Pairs(data) :
        /\ Recorded(data, pr, BC)
        /\ data[pr[1]].branches[pr[2]].cutoffs_2024[BC] = Num(180, 1) }

\* The pairs whose BC cutoff lies between 180 and 185.
PairsFrom180To185(data) ==
    { pr \in Pairs(data) :
        /\ Recorded(data, pr, BC)
        /\ Geq(data[pr[1]].branches[pr[2]].cutoffs_2024[BC], Num(180, 1))
        /\ Geq(Num(185, 1), data[pr[1]].branches[pr[2]].cutoffs_2024[BC]) }

\* The reply's suggestions include the one of pair pr, with cutoff 180.
Includes180(data, pr) ==
    /\ reply.hasSuggestions
    /\ \E k \in 1..Len(reply.suggestions) :
           /\ Names(reply.suggestions[k], data, pr)
           /\ reply.suggestions[k].cutoff = Num(180, 1)

\* C9 (as claimed): on every catalog with a branch whose BC cutoff is 180 the
\* reply to the example message includes that branch's Suggestion.
C9_ExampleIncludesBranch ==
    (pc = "done" /\ userInput = ScenarioText) =>
        \A pr \in PairsAt180(collegesData) : Includes180(collegesData, pr)

\* C9 (amended): the same, on the catalogs in which at most 10 pairs have a
\* BC cutoff between 180 and 185.
C9_ExampleIncludesBranchWithinTopTen ==
    ( /\ pc # "start"
      /\ userInput = ScenarioText
      /\ Cardinality(PairsFrom180To185(collegesData)) <= TopN )
        => /\ pc = "done"
           /\ \A pr \in PairsAt180(collegesData) : Includes180(collegesData, pr)

\* C9 witness: the example message answered on a catalog with a branch at 180
\* and a branch ranked before it.
C9_Witness ==
    /\ pc = "done"
    /\ userInput = ScenarioText
    /\ PairsAt180(collegesData) # {}
    /\ Cardinality(PairsFrom180To185(collegesData)) <= TopN
    /\ reply.hasSuggestions
    /\ Gt(reply.suggestions[1].cutoff, Num(180, 1))
    /\ reply.suggestions[Len(reply.suggestions)].cutoff = Num(180, 1)

(***************************************************************************)
(* Properties of repeated calls of the matcher                             *)
(***************************************************************************)

\* The elements of s with the cutoff c, in their order.
WithCutoff(s, c) == SelectSeq(s, LAMBDA x : x.cutoff = c)

IsPrefix(p, s) == Len(p) <= Len(s) /\ SubSeq(s, 1, Len(p)) = p

\* Suggestions with equal cutoffs are in the order of the scan of the
\* catalog, and none is passed over.
TiesInCatalogOrder(result, scan) ==
    \A k \in 1..Len(result) :
        IsPrefix(WithCutoff(result, result[k].cutoff), WithCutoff(scan, result[k].cutoff))

\* C12: matching is deterministic and idempotent.  No call changes the
\* catalog; a call repeated with the same marks and category returns the
\* sequence the call before returned, element for element; and the order of
\* suggestions with equal cutoffs is fixed by the catalog: they come in the
\* order in which the catalog lists them.
C12_RepeatedCallSameResult ==
    [][ /\ collegesData' = collegesData
        /\ pc' = "again" =>
              /\ suggestions' = suggestions
              /\ TiesInCatalogOrder(suggestions',
                                    CollegeScan(collegesData', 1, marks', category')) ]_vars

\* A repeated call has returned ten suggestions, with equal cutoffs in two
\* colleges among them.
C12_Witness ==
    /\ pc = "again"
    /\ Len(suggestions) = TopN
    /\ \E i, j \in 1..Len(suggestions) :
          /\ i < j
          /\ suggestions[i].cutoff = suggestions[j].cutoff
          /\ suggestions[i].college_name # suggestions[j].college_name

(***************************************************************************)
(* Properties of the chat interface                                        *)
(***************************************************************************)

\* C11: at most one submission is outstanding.  In every reachable state of
\* the interface there is at most one pending reply timer, and one is
\* pending exactly while isLoading is true: whatever the order of send
\* clicks, Enter keys, voice input, New Chat and Delete History, no
\* submission is accepted while a reply is pending.
C11_OneOutstandingSubmission ==
    /\ Len(timers) <= 1
    /\ isLoading <=> timers # <<>>

\* A reply is pending after New Chat, Delete History and a voice result
\* that arrived while it was pending, with a call of handleSendMessage left.
C11_Witness ==
    /\ Len(timers) = 1
    /\ isLoading
    /\ messages = <<WelcomeMessage>>
    /\ chatHistory = <<>>
    /\ inputValue \in Transcripts
    /\ ~IsBlank(inputValue)
    /\ calls < MaxCalls

\* C13: no reply of a previous session reaches the new transcript.  Every
\* assistant turn other than the welcome turn is immediately preceded in
\* the transcript by a user turn, and is the reply to that turn's text.
C13_RepliesFollowTheirUserTurn ==
    \A k \in 2..Len(messages) :
        messages[k].type = "ai" =>
            /\ messages[k - 1].type = "user"
            /\ messages[k].reply = generateAIResponse(messages[k - 1].content, collegesData)

\* The trimmed texts a submission can carry.
SubmittedTexts == { trim(t) : t \in InputTexts \cup Transcripts } \ { <<>> }

Last(s) == s[Len(s)]

\* The submission of t has been accepted: its user turn is the last of the
\* transcript and its timer is pending.
Submitted(t) ==
    /\ timers # <<>>
    /\ Last(timers) = t
    /\ Last(messages) = Message("user", t, NoReply)

\* generateAIResponse on the texts a submission can carry, with the catalog
\* of the interface.
RepliesOnSampleCatalog ==
    [ t \in SubmittedTexts |-> generateAIResponse(t, SampleCatalog) ]

\* The reply to t has just been appended and nothing is pending.
Answered(t) ==
    /\ timers = <<>>
    /\ ~isLoading
    /\ Last(messages).type = "ai"
    /\ collegesData = SampleCatalog
    /\ Last(messages).reply = RepliesOnSampleCatalog[t]

\* What a step does to the transcript, the input, isLoading and the timers.
SubmissionStep ==
    /\ calls' # calls /\ trim(inputValue) # <<>> =>
          /\ messages' = Append(messages, Message("user", trim(inputValue), NoReply))
          /\ timers' = Append(timers, trim(inputValue))
          /\ isLoading'
    /\ calls' # calls /\ trim(inputValue) = <<>> =>
          UNCHANGED <<messages, inputValue, isLoading, isListening, chatHistory,
                      timers, recognition, toast, coreVars, apiVars>>
    /\ timers' # timers =>
          \/ calls' # calls /\ trim(inputValue) # <<>>
          \/ /\ timers' = Tail(timers)
             /\ messages' = Append(messages, Last(messages'))
             /\ Last(messages').type = "ai"
             /\ Last(messages').reply = generateAIResponse(Head(timers), collegesData)
             /\ ~isLoading'
    /\ Len(messages') > Len(messages) => timers' # timers

\* C14: a call of handleSendMessage with a non-blank input appends exactly
\* one user turn, with the trimmed text, and starts one timer in the same
\* step; a call with a blank input changes nothing; while the timer of a
\* submission is pending no step but its callback touches it, the callback
\* appends exactly one assistant turn, the reply of generateAIResponse to
\* the submitted text, and leaves isLoading false; and if the callback runs
\* in the end, every accepted submission leads to that.
C14_SubmissionAnsweredOnce ==
    /\ [][SubmissionStep]_vars
    /\ \A t \in SubmittedTexts : Submitted(t) ~> Answered(t)

\* After a call with a blank input and an accepted submission, the reply
\* with its suggestions is behind the user turn and nothing is pending.
C14_Witness ==
    /\ calls = 2
    /\ Len(messages) = 3
    /\ messages[2].type = "user"
    /\ messages[3].type = "ai"
    /\ messages[3].reply = generateAIResponse(messages[2].content, collegesData)
    /\ messages[3].reply.hasSuggestions
    /\ ~isLoading
    /\ timers = <<>>

(***************************************************************************)
(* Properties of the service wrappers                                      *)
(***************************************************************************)

\* The request of the call has failed: fetch was rejected, the body could
\* not be read or parsed, or synthesizeSpeech got a status that is not OK.
RequestFailed ==
    \/ api.fetch = "rejected"
    \/ /\ api.fetch = "fulfilled"
       /\ \/ api.response.body = "unreadable"
          \/ api.method # "synthesizeSpeech" /\ api.response.body = "unparsable"
          \/ api.method = "synthesizeSpeech" /\ ~api.response.ok

\* C15: each wrapper makes a single attempt.  At most one request is ever
\* issued by a call; a call without its key is rejected with its 'not
\* configured' error and no request; a call with its key has issued exactly
\* one request when it settles; and when that request has failed the call is
\* rejected with the fixed error of the method, never resolved.
C15_SingleAttempt ==
    /\ api.requests <= 1
    /\ api.method # "none" /\ ~KeyConfigured(api.method, config) =>
          /\ api.phase = "settled"
          /\ api.outcome = "rejected"
          /\ api.result = NotConfiguredError(api.method)
          /\ api.requests = 0
    /\ api.method # "none" /\ KeyConfigured(api.method, config) =>
          api.requests = 1
    /\ api.phase = "settled" /\ RequestFailed =>
          /\ api.outcome = "rejected"
          /\ api.result = FixedError(api.method)

\* synthesizeSpeech has been rejected on a response that is not OK and whose
\* body could have been read.
C15_Witness ==
    /\ api.method = "synthesizeSpeech"
    /\ api.phase = "settled"
    /\ api.requests = 1
    /\ api.fetch = "fulfilled"
    /\ ~api.response.ok
    /\ api.response.body = "content"
    /\ api.outcome = "rejected"
    /\ api.result = FixedError("synthesizeSpeech")

====
